---- MODULE Spec2Model ----
(***************************************************************************)
(* Model of the server actions and the upload component of                 *)
(* s3-bucket-uploader:                                                     *)
(*   src/app/actions/upload-image-supabase.ts  (uploadSingleFile,          *)
(*       ensureBucketExists, uploadMultipleImages, uploadImageSupabase,    *)
(*       getUserImages, deleteImage, deleteAllImages)                      *)
(*   src/app/actions/upload-image.ts           (uploadImage,               *)
(*       getUserImages)                                                    *)
(*   src/lib/s3-client.ts                      (uploadFileToS3,            *)
(*       MultiFileUploader)                                                *)
(* Strings that the code inspects are sequences of one-character strings   *)
(* (file names, user ids) or sequences of words (error messages), so that  *)
(* split, lastIndexOf, trim, parseInt and includes are computed.           *)
(***************************************************************************)
EXTENDS Integers, Sequences, FiniteSets, TLC

VARIABLES
    pc,                 \* position of the request being served
    entry,              \* the server action that was invoked
    files,              \* formData.getAll("files") of the batch request
    userId,             \* formData.get("userId")
    folderPath,         \* formData.get("folderPath") || ""
    i,                  \* loop index of uploadMultipleImages
    results,            \* results array of uploadMultipleImages
    successfulUploads,  \* counter of uploadMultipleImages
    rateLimitHit,       \* flag of uploadMultipleImages
    ret,                \* value returned by the server action
    bucketExists,       \* the storage service lists the bucket "images"
    storage,            \* objects held by the storage sink
    images,             \* rows of the images table
    calls,              \* external calls issued by the request, in order
    now,                \* Date.now()
    args,               \* arguments of a listing or deletion request
    uploader            \* state of the MultiFileUploader component in the browser

vars == <<pc, entry, files, userId, folderPath, i, results, successfulUploads,
          rateLimitHit, ret, bucketExists, storage, images, calls, now, args, uploader>>

(***************************************************************************)
(* Bounds and input domains                                                *)
(***************************************************************************)
MaxFiles == 3

DEFAULT_BUCKET == "images"

maxSizeBytes == 52428800

MaxNameLen == 50

DelayMs == 500

Str1 == <<"a", ".", "p", "n", "g">>

Str2 == <<"M", "y", " ", "B", ".", "M", "P", "3">>

Str3 == <<"c", ".", "m", "o", "v">>

FileA == [name |-> Str1, size |-> 2097152, type |-> "image/png"]

FileB == [name |-> Str2, size |-> 52428800, type |-> ""]

FileBig == [name |-> Str3, size |-> 62914560, type |-> "video/quicktime"]

Files == {FileA, FileB, FileBig}

NoUserId == [present |-> FALSE, value |-> <<>>]

SomeUserId(s) == [present |-> TRUE, value |-> s]

UserIds == {NoUserId, SomeUserId(<<" ">>), SomeUserId(<<"1">>), SomeUserId(<<"7">>)}

Users == {1}

Folders == {"", "uploads"}

RandTokens == {"k3x9ab"}

MsgRate == <<"429", "Too", "Many", "Requests">>

MsgSize == <<"413", "Payload", "Too", "Large">>

MsgJson == <<"Unexpected", "token", "is", "not", "valid", "JSON">>

MsgOther == <<"Bucket", "not", "found">>

Messages == {MsgRate, MsgSize, MsgJson, MsgOther}

(***************************************************************************)
(* Responses of the external services                                      *)
(***************************************************************************)
Ok == [kind |-> "ok", msg |-> <<>>]

Err(m) == [kind |-> "error", msg |-> m]

Thrown(m) == [kind |-> "throw", msg |-> m]

Responses == {Ok} \cup {Err(m) : m \in Messages} \cup {Thrown(m) : m \in Messages}

LookupResponses == {Ok, Err(MsgOther), Thrown(MsgOther)}

(***************************************************************************)
(* String helpers (JavaScript built-ins)                                   *)
(***************************************************************************)
UpperChars == <<"A", "B", "C", "D", "E", "F", "G", "H", "I", "J", "K", "L", "M",
                "N", "O", "P", "Q", "R", "S", "T", "U", "V", "W", "X", "Y", "Z">>

LowerChars == <<"a", "b", "c", "d", "e", "f", "g", "h", "i", "j", "k", "l", "m",
                "n", "o", "p", "q", "r", "s", "t", "u", "v", "w", "x", "y", "z">>

DigitChars == <<"0", "1", "2", "3", "4", "5", "6", "7", "8", "9">>

Range(s) == {s[k] : k \in DOMAIN s}

ToLowerChar(c) ==
    IF \E k \in DOMAIN UpperChars : UpperChars[k] = c
    THEN LowerChars[CHOOSE k \in DOMAIN UpperChars : UpperChars[k] = c]
    ELSE c

ToLowerCase(s) == [k \in DOMAIN s |-> ToLowerChar(s[k])]

\* s.lastIndexOf(c): 0-based index of the last occurrence, -1 when absent
LastIndexOf(s, c) ==
    IF \E k \in DOMAIN s : s[k] = c
    THEN (CHOOSE k \in DOMAIN s : s[k] = c /\ \A j \in DOMAIN s : s[j] = c => j <= k) - 1
    ELSE -1

\* s.substring(0, n)
Substring0(s, n) ==
    LET m == IF n < 0 THEN 0 ELSE IF n > Len(s) THEN Len(s) ELSE n
    IN  SubSeq(s, 1, m)

\* s.split(".").pop()
SplitPop(s) == SubSeq(s, LastIndexOf(s, ".") + 2, Len(s))

\* msg.includes(sub), on word sequences
Includes(msg, sub) ==
    \E k \in 0..(Len(msg) - Len(sub)) : SubSeq(msg, k + 1, k + Len(sub)) = sub

RECURSIVE TrimStart(_)
TrimStart(s) == IF s # <<>> /\ Head(s) = " " THEN TrimStart(Tail(s)) ELSE s

RECURSIVE TrimEnd(_)
TrimEnd(s) ==
    IF s # <<>> /\ s[Len(s)] = " " THEN TrimEnd(SubSeq(s, 1, Len(s) - 1)) ELSE s

Trim(s) == TrimEnd(TrimStart(s))

NaN == -1

DigitValue(c) == (CHOOSE k \in DOMAIN DigitChars : DigitChars[k] = c) - 1

RECURSIVE ParseDigits(_, _)
ParseDigits(s, acc) ==
    IF s # <<>> /\ Head(s) \in Range(DigitChars)
    THEN ParseDigits(Tail(s), acc * 10 + DigitValue(Head(s)))
    ELSE acc

\* Number.parseInt(s) for unsigned input: leading blanks skipped, leading digits read
ParseInt(s) ==
    LET t == TrimStart(s)
    IN  IF t # <<>> /\ Head(t) \in Range(DigitChars) THEN ParseDigits(t, 0) ELSE NaN

(***************************************************************************)
(* sanitizeFilename and getContentType                                     *)
(***************************************************************************)
IsAlnum(c) == c \in Range(LowerChars) \cup Range(DigitChars)

\* .replace(/[^a-z0-9]/g, "-")
ReplaceNonAlnum(s) == [k \in DOMAIN s |-> IF IsAlnum(s[k]) THEN s[k] ELSE "-"]

\* .replace(/-+/g, "-")
RECURSIVE CollapseDashes(_)
CollapseDashes(s) ==
    IF Len(s) < 2 THEN s
    ELSE IF s[1] = "-" /\ s[2] = "-" THEN CollapseDashes(Tail(s))
    ELSE <<s[1]>> \o CollapseDashes(Tail(s))

\* .replace(/^-|-$/g, "")
StripDashes(s) ==
    LET t == IF s # <<>> /\ Head(s) = "-" THEN Tail(s) ELSE s
    IN  IF t # <<>> /\ t[Len(t)] = "-" THEN SubSeq(t, 1, Len(t) - 1) ELSE t

sanitizeFilename(filename) ==
    LET cut  == Substring0(filename, LastIndexOf(filename, "."))
        name == IF cut # <<>> THEN cut ELSE filename
        sanitized == StripDashes(CollapseDashes(ReplaceNonAlnum(ToLowerCase(name))))
    IN  Substring0(sanitized, MaxNameLen)

\* faulty variant: the declared type wins over the extension
getContentType_DeclaredFirst(file) ==
    IF file.type # "" THEN file.type ELSE "application/octet-stream"

getContentType(file) ==
    LET extension == ToLowerCase(SplitPop(file.name))
    IN  CASE extension = <<"m", "p", "3">> -> "audio/mpeg"
          [] extension = <<"w", "a", "v">> -> "audio/wav"
          [] extension = <<"o", "g", "g">> -> "audio/ogg"
          [] extension = <<"m", "4", "a">> -> "audio/mp4"
          [] extension = <<"m", "p", "4">> -> "video/mp4"
          [] extension = <<"w", "e", "b", "m">> -> "video/webm"
          [] extension = <<"m", "o", "v">> -> "video/quicktime"
          [] extension = <<"a", "v", "i">> -> "video/x-msvideo"
          [] extension = <<"j", "p", "g">> -> "image/jpeg"
          [] extension = <<"j", "p", "e", "g">> -> "image/jpeg"
          [] extension = <<"p", "n", "g">> -> "image/png"
          [] extension = <<"w", "e", "b", "p">> -> "image/webp"
          [] extension = <<"g", "i", "f">> -> "image/gif"
          [] OTHER -> IF file.type # "" THEN file.type ELSE "application/octet-stream"

(***************************************************************************)
(* Messages built by the code                                              *)
(***************************************************************************)
\* (file.size / (1024 * 1024)).toFixed(1)
SizeMB(size) ==
    LET tenths == (size * 20 + 1048576) \div 2097152
    IN  <<ToString(tenths \div 10), ".", ToString(tenths % 10)>>

FileTooLargeMessage(file) ==
    <<"File", "too", "large", ".", "Maximum", "file", "size", "is", "50MB", ".",
      "Your", "file", "is">> \o SizeMB(file.size) \o <<"MB", ".">>

RateLimitMessage ==
    <<"Rate", "limit", "exceeded", ".", "Please", "try", "again", "later">>

ServerErrorMessage == <<"Server", "error", "occurred", ".">>

SkippedMessage == <<"Upload", "skipped", "due", "to", "rate", "limiting">>

UnknownErrorMessage == <<"Unknown", "error", "occurred">>

WarningMessage(msg) ==
    <<"File", "uploaded", "but", "metadata", "could", "not", "be", "saved", ":">> \o msg

Has(r, f) == f \in DOMAIN r

\* JavaScript truthiness of an optional boolean property
Truthy(r, f) == Has(r, f) /\ r[f]

(***************************************************************************)
(* The external services                                                   *)
(***************************************************************************)
Key(folder, base, ts, rnd, ext) ==
    [folder |-> folder, base |-> base, ts |-> ts, rnd |-> rnd, ext |-> ext]

NoKey == Key("", <<>>, 0, "", <<>>)

\* one external call: the operation, the storage key it is about, the user id it
\* carries, and the answer of the service
Call(op, key, user, resp) == [op |-> op, key |-> key, user |-> user, resp |-> resp]

\* storage.from(bucket).upload(key, ..., {upsert: true})
PutObject(st, bucket, key, contentType, size) ==
    {o \in st : ~(o.bucket = bucket /\ o.key = key)}
        \cup {[bucket |-> bucket, key |-> key, contentType |-> contentType, size |-> size]}

\* storage.from(bucket).getPublicUrl(key)
PublicUrl(bucket, key) == [bucket |-> bucket, path |-> key]

Null == NaN

NextId(img) == IF img = {} THEN 1 ELSE 1 + CHOOSE n \in {r.id : r \in img} : \A r \in img : r.id <= n

\* from("images").insert(mediaData).select().single(): the row as stored
InsertedRow(img, mediaData) ==
    [id |-> NextId(img),
     filename |-> mediaData.filename,
     file_size |-> mediaData.file_size,
     file_type |-> mediaData.file_type,
     bucket_name |-> mediaData.bucket_name,
     storage_path |-> mediaData.storage_path,
     public_url |-> mediaData.public_url,
     user_id |-> IF Has(mediaData, "user_id") THEN mediaData.user_id ELSE Null]

(***************************************************************************)
(* uploadSingleFile                                                        *)
(***************************************************************************)
StorageErrorIsTooLarge(msg) ==
    \/ Includes(msg, <<"Request", "Entity", "Too", "Large">>)
    \/ Includes(msg, <<"413">>)
    \/ Includes(msg, <<"Payload", "Too", "Large">>)

\* faulty variant: a returned storage error is reported as a success
StorageErrorOutcome_Success(msg, file) ==
    [success |-> TRUE, error |-> msg, fileName |-> file.name]

\* the branch taken when the sink returns storageError
StorageErrorOutcome(msg, file) ==
    IF StorageErrorIsTooLarge(msg)
    THEN [success |-> FALSE, error |-> FileTooLargeMessage(file), fileName |-> file.name]
    ELSE [success |-> FALSE, error |-> msg, fileName |-> file.name]

CaughtIsRateLimit(msg) ==
    /\ msg # <<>>
    /\ \/ Includes(msg, <<"Too", "Many", "Requests">>)
       \/ Includes(msg, <<"429">>)
       \/ Includes(msg, <<"rate", "limit">>)

\* faulty variant: thrown errors are never taken as size errors
CaughtIsTooLarge_Never(msg) == FALSE

CaughtIsTooLarge(msg) ==
    /\ msg # <<>>
    /\ \/ Includes(msg, <<"Request", "Entity", "Too", "Large">>)
       \/ Includes(msg, <<"413">>)
       \/ Includes(msg, <<"Payload", "Too", "Large">>)
       \/ Includes(msg, <<"File", "too", "large">>)

CaughtIsJson(msg) == msg # <<>> /\ Includes(msg, <<"not", "valid", "JSON">>)

\* the catch block of uploadSingleFile
CaughtOutcome(msg, file) ==
    IF CaughtIsRateLimit(msg)
    THEN [success |-> FALSE, error |-> RateLimitMessage, fileName |-> file.name,
          isRateLimit |-> TRUE]
    ELSE IF CaughtIsTooLarge(msg)
    THEN [success |-> FALSE, error |-> FileTooLargeMessage(file), fileName |-> file.name]
    ELSE IF CaughtIsJson(msg)
    THEN [success |-> FALSE, error |-> ServerErrorMessage, fileName |-> file.name]
    ELSE [success |-> FALSE, error |-> IF msg # <<>> THEN msg ELSE UnknownErrorMessage,
          fileName |-> file.name]

\* if (userId && userId.trim() !== "")
UserIdSupplied(uid) == uid.present /\ uid.value # <<>> /\ Trim(uid.value) # <<>>

\* faulty variant: the error of the lookup is not looked at
UsersSelectOk_IgnoreError(uid, resp) == ParseInt(uid.value) \in Users

\* from("users").select("id").eq("id", n).single(): a row, or an error when none
UsersSelectOk(uid, resp) == resp.kind = "ok" /\ ParseInt(uid.value) \in Users

\* if (!userError && userData) mediaData.user_id = Number.parseInt(userId)
AttachUser(mediaData, uid, resp) ==
    IF UserIdSupplied(uid) /\ UsersSelectOk(uid, resp)
    THEN mediaData @@ ("user_id" :> ParseInt(uid.value))
    ELSE mediaData

StorageKey(file, folder, t, rnd) ==
    Key(folder, sanitizeFilename(file.name), t, rnd, SplitPop(file.name))

\* faulty variant: a failed metadata insert is a hard failure
DegradedOutcome_Failure(file, publicUrl, fileName, msg) ==
    [success |-> FALSE, error |-> msg, fileName |-> file.name]

\* the return after a failed metadata insert
DegradedOutcome(file, publicUrl, fileName, msg) ==
    [success |-> TRUE, warning |-> WarningMessage(msg), publicUrl |-> publicUrl,
     path |-> fileName, fileName |-> file.name]

\* the final return
SuccessOutcome(file, dbData, publicUrl, fileName) ==
    [success |-> TRUE, image |-> dbData, publicUrl |-> publicUrl, path |-> fileName,
     fileName |-> file.name]

\* env: the random token drawn and the answers of the three external calls
UploadSingleFile(file, folder, uid, env, st, img, t) ==
    LET fileName    == StorageKey(file, folder, t, env.rnd)
        contentType == getContentType(file)
        upCall      == Call("storage.upload", fileName, Null, env.upload)
        st2         == PutObject(st, DEFAULT_BUCKET, fileName, contentType, file.size)
        publicUrl   == PublicUrl(DEFAULT_BUCKET, fileName)
        base        == [filename |-> file.name, file_size |-> file.size,
                        file_type |-> contentType, bucket_name |-> DEFAULT_BUCKET,
                        storage_path |-> fileName, public_url |-> publicUrl]
        mediaData   == AttachUser(base, uid, env.lookup)
        selCalls    == IF UserIdSupplied(uid)
                       THEN <<Call("users.select", fileName, ParseInt(uid.value),
                                   env.lookup)>>
                       ELSE <<>>
        insCall     == Call("images.insert", fileName,
                            IF Has(mediaData, "user_id") THEN mediaData.user_id ELSE Null,
                            env.insert)
        dbData      == InsertedRow(img, mediaData)
    IN  IF env.upload.kind = "throw"
        THEN [result |-> CaughtOutcome(env.upload.msg, file),
              storage |-> st, images |-> img, calls |-> <<upCall>>]
        ELSE IF env.upload.kind = "error"
        THEN [result |-> StorageErrorOutcome(env.upload.msg, file),
              storage |-> st, images |-> img, calls |-> <<upCall>>]
        ELSE IF env.insert.kind = "throw"
        THEN [result |-> CaughtOutcome(env.insert.msg, file),
              storage |-> st2, images |-> img,
              calls |-> <<upCall>> \o selCalls \o <<insCall>>]
        ELSE IF env.insert.kind = "error"
        THEN [result |-> DegradedOutcome(file, publicUrl, fileName, env.insert.msg),
              storage |-> st2, images |-> img,
              calls |-> <<upCall>> \o selCalls \o <<insCall>>]
        ELSE [result |-> SuccessOutcome(file, dbData, publicUrl, fileName),
              storage |-> st2, images |-> img \cup {dbData},
              calls |-> <<upCall>> \o selCalls \o <<insCall>>]

\* the answers the services can give to one uploadSingleFile; answers to calls that
\* are not issued are fixed to Ok
EnvsWith(tokens, uid, uploads, lookups, inserts) ==
    {[rnd |-> r, upload |-> u, lookup |-> l, insert |-> n] :
        r \in tokens, u \in uploads \ {Ok}, l \in {Ok}, n \in {Ok}}
    \cup
    {[rnd |-> r, upload |-> u, lookup |-> l, insert |-> n] :
        r \in tokens, u \in uploads \cap {Ok},
        l \in IF UserIdSupplied(uid) THEN lookups ELSE {Ok}, n \in inserts}

Envs(uid, uploads, lookups, inserts) == EnvsWith(RandTokens, uid, uploads, lookups, inserts)

(***************************************************************************)
(* ensureBucketExists                                                      *)
(***************************************************************************)
EnsureBucketExists(exists, listResp, createResp) ==
    LET listCall   == Call("storage.listBuckets", NoKey, Null, listResp)
        createCall == Call("storage.createBucket", NoKey, Null, createResp)
    IN  IF listResp.kind # "ok"
        THEN [value |-> FALSE, exists |-> exists, calls |-> <<listCall>>]
        ELSE IF exists
        THEN [value |-> TRUE, exists |-> exists, calls |-> <<listCall>>]
        ELSE IF createResp.kind # "ok"
        THEN [value |-> FALSE, exists |-> exists, calls |-> <<listCall, createCall>>]
        ELSE [value |-> TRUE, exists |-> TRUE, calls |-> <<listCall, createCall>>]

(***************************************************************************)
(* uploadMultipleImages                                                    *)
(***************************************************************************)
Batches == UNION {[1..n -> Files] : n \in 0..MaxFiles}

NoRet == [pending |-> TRUE]

\* a request that is not a listing or deletion carries no such arguments
NoArgs == [none |-> TRUE]

\* the component as mounted: useState(false), useState([]), useState(null),
\* useState(false); validFiles is the batch of the uploadFiles call in flight
NoUploader ==
    [files |-> <<>>, uploading |-> FALSE, error |-> <<>>, rateLimitHit |-> FALSE,
     validFiles |-> <<>>]

\* files.filter((file) => file.size > maxSizeBytes)
OversizedFiles(fs) == SelectSeq(fs, LAMBDA f : f.size > maxSizeBytes)

RECURSIVE OversizedList(_)
OversizedList(fs) ==
    IF fs = <<>> THEN <<>>
    ELSE Head(fs).name \o <<"(">> \o SizeMB(Head(fs).size) \o <<"MB", ")">>
         \o (IF Len(fs) > 1 THEN <<",">> ELSE <<>>) \o OversizedList(Tail(fs))

BatchTooLargeMessage(fs) ==
    <<"Some", "files", "are", "too", "large", ".", "Maximum", "size", "is", "50MB", ".",
      "Oversized", "files", ":">> \o OversizedList(OversizedFiles(fs))

\* the outcome pushed for a file after the rate limit was hit
SkippedOutcome(file) ==
    [success |-> FALSE, error |-> SkippedMessage, fileName |-> file.name,
     isRateLimit |-> TRUE]

\* faulty variant: degraded successes are not counted
CountSuccess_OnlyFull(n, result) ==
    IF result.success /\ ~Has(result, "warning") THEN n + 1 ELSE n

\* if (result.success) successfulUploads++
CountSuccess(n, result) == IF result.success THEN n + 1 ELSE n

\* faulty variant: the flag is never raised
MarkRateLimit_Never(hit, result) == hit

\* faulty variant: any failure raises the flag
MarkRateLimit_AnyFailure(hit, result) == IF ~result.success THEN TRUE ELSE hit

\* if (result.isRateLimit) rateLimitHit = true
MarkRateLimit(hit, result) == IF Truthy(result, "isRateLimit") THEN TRUE ELSE hit

\* the pre-check result: reject when some file is over the cap
BatchPreCheckFails(fs) == Len(OversizedFiles(fs)) > 0

\* faulty variant: only the successful outcomes are reported
BatchResult_SuccessesOnly(fs, res, n, hit) ==
    [success |-> TRUE, allSuccessful |-> (n = Len(fs)),
     results |-> SelectSeq(res, LAMBDA r : r.success),
     totalFiles |-> Len(fs), successfulUploads |-> n, rateLimitHit |-> hit]

BatchResult(fs, res, n, hit) ==
    [success |-> TRUE, allSuccessful |-> (n = Len(fs)), results |-> res,
     totalFiles |-> Len(fs), successfulUploads |-> n, rateLimitHit |-> hit]

BatchCaughtIsRateLimit(msg) ==
    /\ msg # <<>>
    /\ \/ Includes(msg, <<"Too", "Many", "Requests">>)
       \/ Includes(msg, <<"429">>)
       \/ Includes(msg, <<"rate", "limit">>)
       \/ Includes(msg, <<"not", "valid", "JSON">>)

BatchRateLimitMessage ==
    <<"Rate", "limit", "exceeded", "or", "server", "error", ".">>

AnUnknownErrorMessage == <<"An", "unknown", "error", "occurred">>

\* the catch block of uploadMultipleImages
BatchCaughtOutcome(msg) ==
    IF BatchCaughtIsRateLimit(msg)
    THEN [success |-> FALSE, error |-> BatchRateLimitMessage, isRateLimit |-> TRUE]
    ELSE [success |-> FALSE, error |-> IF msg # <<>> THEN msg ELSE AnUnknownErrorMessage]

BucketResponses == {Ok, Err(MsgOther), Thrown(MsgOther)}

BatchBucketResponses == {Ok, Err(MsgOther)}

RevalidateResponses == {Ok, Thrown(MsgJson)}

BatchUploads == {Ok, Err(MsgRate), Err(MsgOther), Thrown(MsgRate)}

BatchLookups == {Ok}

BatchInserts == {Ok, Err(MsgOther)}

BatchUserIds == {NoUserId, SomeUserId(<<"1">>)}

BatchFolders == {"uploads"}

\* the storage service stores an object only in a bucket that exists
SinkAccepts(env, exists) == env.upload.kind = "ok" => exists

\* entry of uploadMultipleImages up to the loop: ensureBucketExists, the empty
\* check and the size pre-check
UploadMultipleImagesOf(fileLists) ==
    /\ pc = "idle"
    /\ \E fs \in fileLists, uid \in BatchUserIds, folder \in BatchFolders,
          lr \in BatchBucketResponses, cr \in BatchBucketResponses :
        LET eb == EnsureBucketExists(bucketExists, lr, cr)
        IN  /\ (lr.kind # "ok" \/ bucketExists) => cr = Ok
            /\ entry' = "uploadMultipleImages"
            /\ files' = fs
            /\ userId' = uid
            /\ folderPath' = folder
            /\ bucketExists' = eb.exists
            /\ calls' = eb.calls
            /\ IF Len(fs) = 0
               THEN /\ ret' = [success |-> FALSE, error |-> <<"No", "files", "provided">>]
                    /\ pc' = "done"
               ELSE IF BatchPreCheckFails(fs)
               THEN /\ ret' = [success |-> FALSE, error |-> BatchTooLargeMessage(fs)]
                    /\ pc' = "done"
               ELSE /\ ret' = NoRet
                    /\ pc' = "loop"
    /\ UNCHANGED <<uploader, args, i, results, successfulUploads, rateLimitHit, storage, images, now>>

UploadMultipleImagesStart == UploadMultipleImagesOf(Batches)

\* faulty variant: no delay between files
PacedTime_NoDelay(k, t) == t

\* if (i > 0) await delay(500): the time at which file k + 1 is handled
PacedTime(k, t) == IF k > 0 THEN t + DelayMs ELSE t

\* one iteration of the for loop
UploadMultipleImagesStepOf(uploads) ==
    /\ pc = "loop"
    /\ i < Len(files)
    /\ LET t == PacedTime(i, now)
       IN  /\ now' = t
           /\ i' = i + 1
           /\ IF rateLimitHit
              THEN /\ results' = Append(results, SkippedOutcome(files[i + 1]))
                   /\ UNCHANGED <<successfulUploads, rateLimitHit, storage, images, calls>>
              ELSE \E env \in Envs(userId, uploads, BatchLookups, BatchInserts) :
                   LET r == UploadSingleFile(files[i + 1], folderPath, userId, env,
                                             storage, images, t)
                   IN  /\ SinkAccepts(env, bucketExists)
                       /\ results' = Append(results, r.result)
                       /\ successfulUploads' = CountSuccess(successfulUploads, r.result)
                       /\ rateLimitHit' = MarkRateLimit(rateLimitHit, r.result)
                       /\ storage' = r.storage
                       /\ images' = r.images
                       /\ calls' = calls \o r.calls
    /\ UNCHANGED <<uploader, args, pc, entry, files, userId, folderPath, ret, bucketExists>>

UploadMultipleImagesStep == UploadMultipleImagesStepOf(BatchUploads)

\* after the loop: revalidatePath("/") and the return, or the catch block
UploadMultipleImagesReturn ==
    /\ pc = "loop"
    /\ i = Len(files)
    /\ \E rv \in RevalidateResponses :
        /\ calls' = Append(calls, Call("revalidatePath", NoKey, Null, rv))
        /\ ret' = IF rv.kind = "ok"
                  THEN BatchResult(files, results, successfulUploads, rateLimitHit)
                  ELSE BatchCaughtOutcome(rv.msg)
    /\ pc' = "done"
    /\ UNCHANGED <<uploader, args, entry, files, userId, folderPath, i, results, successfulUploads,
                   rateLimitHit, bucketExists, storage, images, now>>

(***************************************************************************)
(* uploadImageSupabase                                                     *)
(***************************************************************************)
\* if (file.size > maxSizeBytes)
SinglePreCheckFails(file) == file.size > maxSizeBytes

SingleTooLargeMessage(file) ==
    <<"File", "too", "large", ".", "Maximum", "size", "is", "50MB", ".",
      "Your", "file", "is">> \o SizeMB(file.size) \o <<"MB", ".">>

NoFileMessage == <<"No", "file", "provided">>

\* the whole handler; a request without a file carries files = <<>>
UploadImageSupabaseWith(tokens, fileSet, uids, folders, uploads, inserts) ==
    /\ pc = "idle"
    /\ \E fs \in {<<>>} \cup {<<f>> : f \in fileSet}, uid \in uids, folder \in folders,
          lr \in BucketResponses, cr \in BucketResponses :
        /\ entry' = "uploadImageSupabase"
        /\ files' = fs
        /\ userId' = uid
        /\ folderPath' = folder
        /\ IF fs = <<>>
           THEN /\ ret' = [success |-> FALSE, error |-> NoFileMessage]
                /\ lr = Ok /\ cr = Ok
                /\ UNCHANGED <<bucketExists, storage, images, calls>>
           ELSE IF SinglePreCheckFails(fs[1])
           THEN /\ ret' = [success |-> FALSE, error |-> SingleTooLargeMessage(fs[1])]
                /\ lr = Ok /\ cr = Ok
                /\ UNCHANGED <<bucketExists, storage, images, calls>>
           ELSE LET eb == EnsureBucketExists(bucketExists, lr, cr)
                IN  /\ (lr.kind # "ok" \/ bucketExists) => cr = Ok
                    /\ bucketExists' = eb.exists
                    /\ \E env \in EnvsWith(tokens, uid, uploads, LookupResponses, inserts) :
                        LET r == UploadSingleFile(fs[1], folder, uid, env,
                                                  storage, images, now)
                        IN  /\ SinkAccepts(env, eb.exists)
                            /\ ret' = r.result
                            /\ storage' = r.storage
                            /\ images' = r.images
                            /\ calls' = eb.calls \o r.calls
    /\ pc' = "done"
    /\ UNCHANGED <<uploader, args, i, results, successfulUploads, rateLimitHit, now>>

UploadImageSupabaseOf(fileSet, uids, folders, uploads, inserts) ==
    UploadImageSupabaseWith(RandTokens, fileSet, uids, folders, uploads, inserts)

UploadImageSupabase == UploadImageSupabaseOf(Files, UserIds, Folders, Responses, Responses)

(***************************************************************************)
(* uploadImage (upload-image.ts) with uploadFileToS3 (s3-client.ts)        *)
(***************************************************************************)
S3FailedMessage == <<"Failed", "to", "upload", "file", "to", "S3">>

\* faulty variant: the catch block reports success
uploadFileToS3_CatchSucceeds(st, fileName, contentType, size, bucketName, resp) ==
    [success |-> TRUE, publicUrl |-> PublicUrl(bucketName, fileName), path |-> fileName,
     storage |-> IF resp.kind = "ok"
                 THEN PutObject(st, bucketName, fileName, contentType, size)
                 ELSE st]

\* s3Client.send(PutObjectCommand) answers or throws; the throw is caught
uploadFileToS3(st, fileName, contentType, size, bucketName, resp) ==
    IF resp.kind = "ok"
    THEN [success |-> TRUE, publicUrl |-> PublicUrl(bucketName, fileName),
          path |-> fileName,
          storage |-> PutObject(st, bucketName, fileName, contentType, size)]
    ELSE [success |-> FALSE,
          error |-> IF resp.msg # <<>> THEN resp.msg ELSE S3FailedMessage,
          storage |-> st]

\* user_id: userId ? Number.parseInt(userId) : null
UploadImageUserId(uid) ==
    IF uid.present /\ uid.value # <<>> THEN ParseInt(uid.value) ELSE Null

S3Responses == {Ok} \cup {Thrown(m) : m \in Messages}

\* the whole handler
UploadImage ==
    /\ pc = "idle"
    /\ \E fs \in {<<>>} \cup {<<f>> : f \in Files}, uid \in UserIds, folder \in Folders,
          rnd \in RandTokens, sr \in S3Responses, ir \in Responses,
          rv \in RevalidateResponses :
        /\ entry' = "uploadImage"
        /\ files' = fs
        /\ userId' = uid
        /\ folderPath' = folder
        /\ IF fs = <<>>
           THEN /\ ret' = [success |-> FALSE, error |-> NoFileMessage]
                /\ sr = Ok /\ ir = Ok /\ rv = Ok
                /\ UNCHANGED <<storage, images, calls>>
           ELSE LET file     == fs[1]
                    fileName == Key(folder, <<>>, now, rnd, SplitPop(file.name))
                    s3Result == uploadFileToS3(storage, fileName, file.type, file.size,
                                               DEFAULT_BUCKET, sr)
                    s3Call   == Call("s3.putObject", fileName, Null, sr)
                    mediaData == [filename |-> file.name, file_size |-> file.size,
                                  file_type |-> file.type, bucket_name |-> DEFAULT_BUCKET,
                                  storage_path |-> fileName,
                                  public_url |-> PublicUrl(DEFAULT_BUCKET, fileName),
                                  user_id |-> UploadImageUserId(uid)]
                    insCall  == Call("images.insert", fileName, mediaData.user_id, ir)
                    dbData   == InsertedRow(images, mediaData)
                    rvCall   == Call("revalidatePath", NoKey, Null, rv)
                IN  /\ sr.kind = "ok" => bucketExists
                    /\ storage' = s3Result.storage
                    /\ IF ~s3Result.success
                       THEN /\ ret' = [success |-> FALSE, error |-> s3Result.error]
                            /\ ir = Ok /\ rv = Ok
                            /\ calls' = <<s3Call>>
                            /\ images' = images
                       ELSE IF ir.kind = "throw"
                       THEN /\ ret' = [success |-> FALSE,
                                       error |-> IF ir.msg # <<>> THEN ir.msg
                                                 ELSE AnUnknownErrorMessage]
                            /\ rv = Ok
                            /\ calls' = <<s3Call, insCall>>
                            /\ images' = images
                       ELSE IF ir.kind = "error"
                       THEN /\ ret' = [success |-> TRUE,
                                       warning |-> <<"File", "uploaded", "but", "metadata",
                                                     "could", "not", "be", "saved">>,
                                       publicUrl |-> s3Result.publicUrl,
                                       path |-> fileName]
                            /\ rv = Ok
                            /\ calls' = <<s3Call, insCall>>
                            /\ images' = images
                       ELSE /\ ret' = IF rv.kind = "ok"
                                      THEN [success |-> TRUE, image |-> dbData,
                                            publicUrl |-> s3Result.publicUrl,
                                            path |-> fileName]
                                      ELSE [success |-> FALSE,
                                            error |-> IF rv.msg # <<>> THEN rv.msg
                                                      ELSE AnUnknownErrorMessage]
                            /\ calls' = <<s3Call, insCall, rvCall>>
                            /\ images' = images \cup {dbData}
    /\ pc' = "done"
    /\ UNCHANGED <<uploader, args, i, results, successfulUploads, rateLimitHit, bucketExists, now>>

(***************************************************************************)
(* The specification                                                       *)
(***************************************************************************)
Init ==
    /\ pc = "idle"
    /\ entry = "none"
    /\ files = <<>>
    /\ userId = NoUserId
    /\ folderPath = ""
    /\ i = 0
    /\ results = <<>>
    /\ successfulUploads = 0
    /\ rateLimitHit = FALSE
    /\ ret = NoRet
    /\ bucketExists \in BOOLEAN
    /\ storage = {}
    /\ images = {}
    /\ calls = <<>>
    /\ now = 1000
    /\ args = NoArgs
    /\ uploader = NoUploader

Next ==
    \/ UploadMultipleImagesStart
    \/ UploadMultipleImagesStep
    \/ UploadMultipleImagesReturn
    \/ UploadImageSupabase
    \/ UploadImage

Spec == Init /\ [][Next]_vars

(***************************************************************************)
(* Properties                                                              *)
(***************************************************************************)
InBatch == entry = "uploadMultipleImages"

BatchReturned == InBatch /\ pc = "done" /\ ret.success

\* the storage writes issued so far, in order
UploadCalls == SelectSeq(calls, LAMBDA c : c.op = "storage.upload")

\* the outcome synthesized for a file that is not attempted
IsSkipped(r) == Has(r, "error") /\ r.error = SkippedMessage

CountSuccesses(res) == Len(SelectSeq(res, LAMBDA r : r.success))

\* the moment file j of the batch is handled, given that i >= 1 files were handled
FileTime(j) == now - DelayMs * (i - j)

\* the external calls issued on behalf of file j of the batch
CallsFor(j) == SelectSeq(calls, LAMBDA c : c.key # NoKey /\ c.key.ts = FileTime(j))

\* C1: a batch result of uploadMultipleImages carries exactly one outcome per input
\* file, in input order: as many results as files, totalFiles equal to that
\* number, and results[k].fileName equal to the name of file k, failed and
\* skipped files included.
C1_OneOutcomePerFile ==
    BatchReturned =>
        /\ Len(ret.results) = Len(files)
        /\ ret.totalFiles = Len(files)
        /\ \A k \in 1..Len(files) : ret.results[k].fileName = files[k].name

C1_Witness ==
    /\ BatchReturned
    /\ Len(files) = 3
    /\ files[1].name # files[2].name
    /\ ret.results[1].success
    /\ ~ret.results[2].success
    /\ IsSkipped(ret.results[3])

\* C2: successfulUploads equals the number of outcomes whose success flag is true,
\* after every iteration of the loop and in the returned batch result.
C2_SuccessCount ==
    /\ (InBatch /\ pc \in {"loop", "done"}) => successfulUploads = CountSuccesses(results)
    /\ BatchReturned => ret.successfulUploads = CountSuccesses(ret.results)

C2_Witness ==
    /\ BatchReturned
    /\ Len(ret.results) = 3
    /\ ret.successfulUploads = 2
    /\ \E k \in 1..3 : Has(ret.results[k], "warning")
    /\ \E k \in 1..3 : ~ret.results[k].success

\* the first file whose outcome carries the rate-limit flag (0 when there is none)
FirstRateLimited(res) ==
    IF \E k \in DOMAIN res : Truthy(res[k], "isRateLimit")
    THEN CHOOSE k \in DOMAIN res :
            /\ Truthy(res[k], "isRateLimit")
            /\ \A j \in 1..(k - 1) : ~Truthy(res[j], "isRateLimit")
    ELSE 0

\* C3: when file k is the first file with a rate-limited outcome, files 1..k were
\* really attempted (one storage upload each), no storage upload, user lookup or
\* metadata insert is issued for a later file, every later file gets the
\* synthesized skipped outcome, rateLimitHit is set, and successfulUploads counts
\* the successes among files 1..k only.
C3_RateLimitShortCircuit ==
    (InBatch /\ pc \in {"loop", "done"} /\ FirstRateLimited(results) > 0) =>
        LET k == FirstRateLimited(results)
        IN  /\ \A j \in 1..k :
                /\ CallsFor(j) # <<>>
                /\ Head(CallsFor(j)).op = "storage.upload"
                /\ ~IsSkipped(results[j])
            /\ Len(UploadCalls) = k
            /\ \A j \in (k + 1)..Len(results) :
                /\ CallsFor(j) = <<>>
                /\ results[j] = [success |-> FALSE, error |-> SkippedMessage,
                                 fileName |-> files[j].name, isRateLimit |-> TRUE]
            /\ rateLimitHit
            /\ successfulUploads = CountSuccesses(SubSeq(results, 1, k))
            /\ BatchReturned =>
                /\ ret.rateLimitHit
                /\ ret.successfulUploads = CountSuccesses(SubSeq(ret.results, 1, k))

C3_Witness ==
    /\ BatchReturned
    /\ Len(files) = 3
    /\ FirstRateLimited(ret.results) = 1
    /\ userId.present
    /\ IsSkipped(ret.results[3])

\* the message carries one of the rate-limit markers
RateMarked(msg) ==
    \/ Includes(msg, <<"429">>)
    \/ Includes(msg, <<"Too", "Many", "Requests">>)
    \/ Includes(msg, <<"rate", "limit">>)

\* C4: when the storage call for file k returns an error whose message carries
\* "429", "Too Many Requests" or "rate limit" and the earlier files succeeded, the
\* outcome of file k is a failure flagged as rate-limited, every later file is
\* skipped, rateLimitHit is set, and successfulUploads is k - 1 (for 3 files and
\* k = 2: success, rate-limited failure, skipped, successfulUploads = 1).
C4_ReturnedRateLimitError ==
    (InBatch /\ pc \in {"loop", "done"}) =>
        \A k \in 1..Len(UploadCalls) :
            ( /\ UploadCalls[k].resp.kind = "error"
              /\ RateMarked(UploadCalls[k].resp.msg)
              /\ \A j \in 1..(k - 1) : results[j].success ) =>
                /\ ~results[k].success
                /\ Truthy(results[k], "isRateLimit")
                /\ \A j \in (k + 1)..Len(results) : IsSkipped(results[j])
                /\ rateLimitHit
                /\ BatchReturned =>
                    /\ ret.rateLimitHit
                    /\ ret.successfulUploads = k - 1

\* C5: when a file of the request exceeds the 52,428,800-byte cap,
\* uploadMultipleImages and uploadImageSupabase return a failure and have issued no
\* external call at all: no bucket listing or creation, no storage upload, no
\* database query or insert.
C5_OversizeNoExternalCall ==
    ( /\ pc = "done"
      /\ entry \in {"uploadMultipleImages", "uploadImageSupabase"}
      /\ \E k \in DOMAIN files : files[k].size > maxSizeBytes ) =>
        /\ ~ret.success
        /\ calls = <<>>
        /\ storage = {}
        /\ images = {}

IsStorageWrite(c) == c.op \in {"storage.upload", "s3.putObject"}

IsMetadataCall(c) == c.op \in {"users.select", "images.insert"}

\* the outcome reported for the upload that was given storage key key
OutcomeOfKey(key) ==
    IF InBatch
    THEN results[CHOOSE k \in 1..Len(UploadCalls) : UploadCalls[k].key = key]
    ELSE ret

Settled == IF InBatch THEN pc \in {"loop", "done"} ELSE pc = "done"

\* C6: when the storage write of an upload fails (an error is returned or the call
\* throws), the outcome of that upload has success = false and the metadata store
\* is not touched for it: no users lookup, no images insert, no row for its key.
C6_FailedWriteLeavesMetadata ==
    Settled =>
        \A n \in DOMAIN calls :
            (IsStorageWrite(calls[n]) /\ calls[n].resp.kind # "ok") =>
                /\ ~OutcomeOfKey(calls[n].key).success
                /\ \A m \in DOMAIN calls :
                    IsMetadataCall(calls[m]) => calls[m].key # calls[n].key
                /\ \A r \in images : r.storage_path # calls[n].key
                /\ ~InBatch => images = {}

C6_Witness ==
    \/ /\ entry = "uploadImageSupabase" /\ pc = "done"
       /\ \E n \in DOMAIN calls : IsStorageWrite(calls[n]) /\ calls[n].resp.kind = "throw"
       /\ UserIdSupplied(userId)
    \/ /\ BatchReturned /\ Len(files) = 3 /\ userId.present
       /\ UploadCalls[2].resp.kind = "error"
       /\ ret.results[1].success /\ ret.results[3].success
       /\ Cardinality(images) = 2

\* C7: a metadata insert is issued only after the storage write of the same key
\* has succeeded in the same operation, and every row of the images table stems
\* from such an insert and has its object in the storage sink.
C7_InsertAfterStore ==
    /\ \A n \in DOMAIN calls :
        calls[n].op = "images.insert" =>
            \E m \in 1..(n - 1) :
                /\ IsStorageWrite(calls[m])
                /\ calls[m].key = calls[n].key
                /\ calls[m].resp.kind = "ok"
    /\ \A r \in images :
        /\ \E n \in DOMAIN calls :
            /\ calls[n].op = "images.insert"
            /\ calls[n].resp.kind = "ok"
            /\ calls[n].key = r.storage_path
        /\ \E o \in storage : o.bucket = r.bucket_name /\ o.key = r.storage_path

C7_Witness ==
    /\ pc = "done"
    /\ entry \in {"uploadImage", "uploadImageSupabase"}
    /\ Cardinality(images) = 1
    /\ ret.success

\* C8: when the storage write succeeds and the metadata insert returns an error,
\* the outcome is a degraded success: success = true, a warning, the publicUrl and
\* path of the stored object, no image record; the object stays in the sink and
\* no row is catalogued for it.
C8_DegradedSuccess ==
    Settled =>
        \A n \in DOMAIN calls :
            (calls[n].op = "images.insert" /\ calls[n].resp.kind = "error") =>
                LET key == calls[n].key
                    out == OutcomeOfKey(key)
                IN  /\ out.success
                    /\ Has(out, "warning")
                    /\ Has(out, "publicUrl")
                    /\ out.publicUrl = [bucket |-> DEFAULT_BUCKET, path |-> key]
                    /\ Has(out, "path")
                    /\ out.path = key
                    /\ ~Has(out, "image")
                    /\ \E o \in storage : o.bucket = DEFAULT_BUCKET /\ o.key = key
                    /\ \A r \in images : r.storage_path # key

C8_Witness ==
    /\ pc = "done"
    /\ entry = "uploadImageSupabase"
    /\ \E n \in DOMAIN calls : calls[n].op = "images.insert" /\ calls[n].resp.kind = "error"
    /\ Has(ret, "warning")
    /\ storage # {}

\* the user id is absent or blank
BlankUserId(uid) == ~uid.present \/ \A k \in DOMAIN uid.value : uid.value[k] = " "

\* C9: in uploadSingleFile the inserted record carries a user_id only when a
\* non-blank userId was supplied and the users lookup for it returned a row without
\* error; otherwise (userId absent or blank, lookup error, no row, lookup throws)
\* the record is inserted without user_id, and the upload does not fail because
\* of the user reference: the insert is issued after every successful storage
\* write and the outcome is a success unless the insert itself throws.
C9_UserAssociation ==
    (Settled /\ entry \in {"uploadMultipleImages", "uploadImageSupabase"}) =>
        /\ \A n \in DOMAIN calls :
            calls[n].op = "images.insert" =>
                LET c    == calls[n]
                    good == /\ ~BlankUserId(userId)
                            /\ calls[n - 1].op = "users.select"
                            /\ calls[n - 1].key = c.key
                            /\ calls[n - 1].resp.kind = "ok"
                            /\ calls[n - 1].user \in Users
                IN  /\ good => c.user = calls[n - 1].user
                    /\ ~good => c.user = Null
                    /\ (~good /\ c.resp.kind # "throw") => OutcomeOfKey(c.key).success
                    /\ c.resp.kind = "ok" =>
                        \E r \in images : r.storage_path = c.key /\ r.user_id = c.user
        /\ \A n \in DOMAIN calls :
            (calls[n].op = "storage.upload" /\ calls[n].resp.kind = "ok") =>
                \E m \in (n + 1)..Len(calls) :
                    calls[m].op = "images.insert" /\ calls[m].key = calls[n].key

C9_Witness ==
    /\ pc = "done"
    /\ entry = "uploadImageSupabase"
    /\ userId = SomeUserId(<<"1">>)
    /\ \E n \in DOMAIN calls : calls[n].op = "users.select" /\ calls[n].resp.kind = "throw"
    /\ Has(ret, "image")
    /\ ret.image.user_id = Null

\* C10: a failure of file k that is not flagged as rate-limited does not abort the
\* batch: it is recorded in results[k] under the file's name, and as long as no
\* outcome is rate-limited every file is attempted by a storage upload of its
\* own, so that the loop ends with one outcome per file.
C10_FailureDoesNotAbort ==
    (InBatch /\ pc \in {"loop", "done"}) =>
        /\ \A j \in 1..Len(results) :
            (\A m \in 1..(j - 1) : ~Truthy(results[m], "isRateLimit")) =>
                /\ ~IsSkipped(results[j])
                /\ CallsFor(j) # <<>>
                /\ Head(CallsFor(j)).op = "storage.upload"
                /\ results[j].fileName = files[j].name
                /\ Head(CallsFor(j)).resp.kind # "ok" => ~results[j].success
        /\ (pc = "done" /\ i > 0) => Len(results) = Len(files)

C10_Witness ==
    /\ BatchReturned
    /\ Len(files) = 3
    /\ ~ret.results[1].success
    /\ ~Truthy(ret.results[1], "isRateLimit")
    /\ ret.results[2].success
    /\ ~ret.results[3].success
    /\ ~ret.rateLimitHit

(***************************************************************************)
(* sanitizeFilename applied to file names, then to its own output          *)
(***************************************************************************)
MaxTail == 3

\* file names are a run of "x" followed by a short tail over SanitizeAlphabet
PadLengths == {0, 48, 49}

SanitizeAlphabet == {"a", "B", "7", "-", ".", " "}

Extensions == {<<"p", "n", "g">>, <<"M", "P", "3">>}

Pad(n) == [k \in 1..n |-> "x"]

Tails == UNION {[1..n -> SanitizeAlphabet] : n \in 0..MaxTail}

FileNames == {Pad(n) \o t : n \in PadLengths, t \in Tails}

\* `${sanitizedName}.${fileExt}`: the name a stored file would be sanitized from again
Rejoin(sanitizedName, fileExt) == sanitizedName \o <<".">> \o fileExt

InitSanitize ==
    /\ Init
    /\ bucketExists = TRUE

\* const sanitizedName = sanitizeFilename(file.name)
Sanitize ==
    /\ pc = "idle"
    /\ \E f \in FileNames, e \in Extensions :
        /\ files' = <<[name |-> f, size |-> 1, type |-> ""]>>
        /\ ret' = [sanitizedName |-> sanitizeFilename(f), fileExt |-> e]
    /\ entry' = "sanitizeFilename"
    /\ pc' = "sanitized"
    /\ UNCHANGED <<uploader, args, userId, folderPath, i, results, successfulUploads, rateLimitHit,
                   bucketExists, storage, images, calls, now>>

\* sanitizeFilename applied to the sanitized name with an extension appended
Resanitize ==
    /\ pc = "sanitized"
    /\ entry = "sanitizeFilename"
    /\ ret' = [ret EXCEPT !.sanitizedName =
                   sanitizeFilename(Rejoin(ret.sanitizedName, ret.fileExt))]
    /\ pc' = "done"
    /\ UNCHANGED <<uploader, args, entry, files, userId, folderPath, i, results, successfulUploads,
                   rateLimitHit, bucketExists, storage, images, calls, now>>

NextSanitize == Sanitize \/ Resanitize

SpecSanitize == InitSanitize /\ [][NextSanitize]_vars

Sanitized == entry = "sanitizeFilename" /\ pc \in {"sanitized", "done"}

DashFree(s) == s = <<>> \/ (Head(s) # "-" /\ s[Len(s)] # "-")

\* C11: the sanitized name of every file name consists only of lowercase letters,
\* digits and dashes, is at most 50 characters long, and neither begins nor ends
\* with a dash, also when the truncation to 50 characters cuts the name.
C11_SanitizedShape ==
    Sanitized =>
        /\ Range(ret.sanitizedName) \subseteq Range(LowerChars) \cup Range(DigitChars) \cup {"-"}
        /\ Len(ret.sanitizedName) <= 50
        /\ DashFree(ret.sanitizedName)

\* C12: sanitizing the sanitized name with an extension appended gives the
\* sanitized name again.
C12_SanitizeIdempotent ==
    (entry = "sanitizeFilename" /\ pc = "done") =>
        ret.sanitizedName = sanitizeFilename(files[1].name)

(***************************************************************************)
(* The upload entry points applied to files of every extension, declared   *)
(* type and size                                                           *)
(***************************************************************************)
Stem == <<"f">>

\* the extensions of the switch of getContentType, in lower case
KnownExtensions ==
    {<<"m", "p", "3">>, <<"w", "a", "v">>, <<"o", "g", "g">>, <<"m", "4", "a">>,
     <<"m", "p", "4">>, <<"w", "e", "b", "m">>, <<"m", "o", "v">>, <<"a", "v", "i">>,
     <<"j", "p", "g">>, <<"j", "p", "e", "g">>, <<"p", "n", "g">>, <<"w", "e", "b", "p">>,
     <<"g", "i", "f">>}

OtherExtensions ==
    {<<"P", "N", "G">>, <<"M", "p", "3">>, <<"t", "x", "t">>, <<"p", "d", "f">>,
     <<"t", "a", "r", ".", "g", "z">>, <<>>}

TypedNames ==
    {Stem \o <<".">> \o e : e \in KnownExtensions \cup OtherExtensions} \cup {Stem}

DeclaredTypes == {"", "image/png", "audio/mpeg", "text/plain"}

FileSizes == {0, 2048}

TypedFiles ==
    {[name |-> n, size |-> sz, type |-> t] :
        n \in TypedNames, sz \in FileSizes, t \in DeclaredTypes}

\* the files of the one-file batches
TypedBatchFiles ==
    {f \in TypedFiles : f.name \in {Stem \o <<".", "m", "o", "v">>,
                                     Stem \o <<".", "t", "x", "t">>}}

\* createBucket(DEFAULT_BUCKET, {allowedMimeTypes}) and the uploader's allowedFileTypes
AllowedMimeTypes ==
    {"image/jpeg", "image/png", "image/webp", "image/gif",
     "video/mp4", "video/webm", "video/quicktime", "video/x-msvideo",
     "audio/mpeg", "audio/wav", "audio/ogg", "audio/mp4"}

UploadTypedFile == UploadImageSupabaseOf(TypedFiles, {NoUserId}, {""}, {Ok}, {Ok})

UploadTypedBatch == UploadMultipleImagesOf({<<f>> : f \in TypedBatchFiles})

NextTyped ==
    \/ UploadTypedFile
    \/ UploadTypedBatch
    \/ UploadMultipleImagesStep
    \/ UploadMultipleImagesReturn

SpecTyped == Init /\ [][NextTyped]_vars

\* the canonical type of each extension named by the contract
CanonicalType ==
    [e \in KnownExtensions |->
        CASE e \in {<<"m", "p", "3">>} -> "audio/mpeg"
          [] e \in {<<"w", "a", "v">>} -> "audio/wav"
          [] e \in {<<"o", "g", "g">>} -> "audio/ogg"
          [] e \in {<<"m", "4", "a">>} -> "audio/mp4"
          [] e \in {<<"m", "p", "4">>} -> "video/mp4"
          [] e \in {<<"w", "e", "b", "m">>} -> "video/webm"
          [] e \in {<<"m", "o", "v">>} -> "video/quicktime"
          [] e \in {<<"a", "v", "i">>} -> "video/x-msvideo"
          [] e \in {<<"j", "p", "g">>, <<"j", "p", "e", "g">>} -> "image/jpeg"
          [] e \in {<<"p", "n", "g">>} -> "image/png"
          [] e \in {<<"w", "e", "b", "p">>} -> "image/webp"
          [] e \in {<<"g", "i", "f">>} -> "image/gif"]

\* the text after the last dot of the name (the whole name when it has no dot)
LowerExtension(name) == ToLowerCase(SplitPop(name))

ExpectedType(file) ==
    IF LowerExtension(file.name) \in KnownExtensions
    THEN CanonicalType[LowerExtension(file.name)]
    ELSE IF file.type # "" THEN file.type
    ELSE "application/octet-stream"

TypedRequest == entry \in {"uploadImageSupabase", "uploadMultipleImages"} /\ Len(files) = 1

\* C13: the content type of a stored object and the file_type of the record
\* written for it are the canonical type of the file's lowercased extension when
\* that extension is one of the thirteen known ones, whatever type was declared,
\* and otherwise the declared type, or application/octet-stream when none was
\* declared.
C13_ContentType ==
    TypedRequest =>
        /\ \A o \in storage : o.contentType = ExpectedType(files[1])
        /\ \A row \in images : row.file_type = ExpectedType(files[1])
        /\ getContentType(files[1]) = ExpectedType(files[1])

C13_Witness ==
    /\ entry = "uploadImageSupabase"
    /\ pc = "done"
    /\ files = <<[name |-> Stem \o <<".", "M", "p", "3">>, size |-> 2048, type |-> "text/plain"]>>
    /\ \E o \in storage : o.contentType = "audio/mpeg"
    /\ \E row \in images : row.file_type = "audio/mpeg"

\* C19: a file whose declared type is not on the allow-list reaches no external
\* service: the request is rejected with no call issued and nothing stored.
C19_DisallowedTypeRejected ==
    (TypedRequest /\ files[1].type \notin AllowedMimeTypes) =>
        /\ calls = <<>>
        /\ storage = {}
        /\ pc = "done" => ~ret.success

\* C20: for an empty file the single-file upload issues neither a storage upload
\* nor a metadata insert, and is rejected.
C20_EmptyFileRejected ==
    (entry = "uploadImageSupabase" /\ Len(files) = 1 /\ files[1].size = 0) =>
        /\ \A n \in DOMAIN calls : calls[n].op \notin {"storage.upload", "images.insert"}
        /\ pc = "done" => ~ret.success

(***************************************************************************)
(* Listing and deletion: getUserImages (both files), deleteImage,          *)
(* deleteAllImages, over a table and a sink that already hold assets       *)
(***************************************************************************)
RemoveBatchSize == 1000

DefaultLimit == 10

StoredKey(n) == Key("", <<"a">>, 900 + n, "k3x9ab", <<"p", "n", "g">>)

\* image.bucket_name || DEFAULT_BUCKET (a null bucket_name is "")
BucketOf(image) == IF image.bucket_name # "" THEN image.bucket_name ELSE DEFAULT_BUCKET

StoredRow(id, uid, bucket, created) ==
    [id |-> id, filename |-> <<"a", ".", "p", "n", "g">>, file_size |-> 2048,
     file_type |-> "image/png", bucket_name |-> bucket, storage_path |-> StoredKey(id),
     public_url |-> PublicUrl(IF bucket # "" THEN bucket ELSE DEFAULT_BUCKET, StoredKey(id)),
     user_id |-> uid, created_at |-> created]

Row1 == StoredRow(1, 1, "images", 902)

Row2 == StoredRow(2, 1, "media", 901)

Row3 == StoredRow(3, 2, "", 903)

StoredRows == {Row1, Row2, Row3}

StoredObject(row) ==
    [bucket |-> BucketOf(row), key |-> row.storage_path,
     contentType |-> row.file_type, size |-> row.file_size]

Tables == SUBSET StoredRows

\* the arguments: userId?: number, limit = 10, imageId: number
Absent == [present |-> FALSE, value |-> Null]

Given(v) == [present |-> TRUE, value |-> v]

NumericUserIds == {Absent, Given(0), Given(1), Given(2), Given(7)}

Limits == {Absent, Given(1), Given(2)}

ImageIds == {1, 2, 3, 9}

StoreResponses == {Ok, Err(MsgOther), Thrown(MsgOther)}

\* limit = 10
LimitOf(limit) == IF limit.present THEN limit.value ELSE DefaultLimit

\* if (userId): undefined and 0 are falsy
UserFilterOn(uid) == uid.present /\ uid.value # 0

\* .order("created_at", { ascending: false })
RECURSIVE NewestFirst(_)
NewestFirst(rows) ==
    IF rows = {} THEN <<>>
    ELSE LET r == CHOOSE x \in rows : \A y \in rows : y.created_at <= x.created_at
         IN  <<r>> \o NewestFirst(rows \ {r})

\* .limit(n)
Take(s, n) == SubSeq(s, 1, IF n < Len(s) THEN n ELSE Len(s))

\* from("images").select("*").order(...).limit(limit) with an optional .eq("user_id", uid)
SelectImages(img, filtered, uid, limit) ==
    Take(NewestFirst({r \in img : filtered => r.user_id = uid}), limit)

\* return { images: data }, or the catch block
ListOutcome(resp, data) ==
    IF resp.kind = "ok" THEN [images |-> data] ELSE [images |-> <<>>, error |-> resp.msg]

\* getUserImages of upload-image-supabase.ts
getUserImages(uid, limit, resp, img) ==
    [result |-> ListOutcome(resp, SelectImages(img, UserFilterOn(uid), uid.value, LimitOf(limit))),
     calls  |-> <<Call("images.select", NoKey,
                       IF UserFilterOn(uid) THEN uid.value ELSE Null, resp)>>]

\* getUserImages of upload-image.ts: if (!userId) return { images: [] }
getUserImagesOfUploadImage(uid, limit, resp, img) ==
    IF ~UserFilterOn(uid)
    THEN [result |-> [images |-> <<>>], calls |-> <<>>]
    ELSE [result |-> ListOutcome(resp, SelectImages(img, TRUE, uid.value, LimitOf(limit))),
          calls  |-> <<Call("images.select", NoKey, uid.value, resp)>>]

\* faulty variant: the catch block throws the error again
DeleteCaughtOutcome_Rethrow(msg) == [thrown |-> msg]

\* the catch block of deleteImage and deleteAllImages
DeleteCaughtOutcome(msg) ==
    [success |-> FALSE, error |-> IF msg # <<>> THEN msg ELSE AnUnknownErrorMessage]

\* the error of .single() when no row matches
NoRowsMessage == <<"JSON", "object", "requested", ",", "multiple", "(", "or", "no", "rows", ")",
                   "returned">>

ImageNotFoundMessage == <<"Image", "not", "found">>

NoImagesMessage == <<"No", "images", "to", "delete">>

\* storage.from(bucket).remove(paths)
RemoveObjects(st, bucket, paths) == {o \in st : ~(o.bucket = bucket /\ o.key \in Range(paths))}

RemoveCall(bucket, paths, resp) ==
    [op |-> "storage.remove", bucket |-> bucket, key |-> paths, user |-> Null, resp |-> resp]

Outcome(result, st, img, cs) ==
    [result |-> result, storage |-> st, images |-> img, calls |-> cs]

\* faulty variant: the row deletion is issued although no record was found
DeleteImageNotFound_DeletesAnyway(single, st, img, selCall) ==
    Outcome([success |-> TRUE], st, img,
            <<selCall, Call("images.delete", NoKey, Null, Ok)>>)

\* the select answered without a row: .single() reports an error, or data is null
DeleteImageNotFound(single, st, img, selCall) ==
    Outcome([success |-> FALSE,
             error |-> IF single = "error" THEN NoRowsMessage ELSE ImageNotFoundMessage],
            st, img, <<selCall>>)

deleteImage(imageId, env, st, img) ==
    LET found   == {r \in img : r.id = imageId}
        selCall == Call("images.select", NoKey, Null, env.select)
    IN  IF env.select.kind = "throw"
        THEN Outcome(DeleteCaughtOutcome(env.select.msg), st, img, <<selCall>>)
        ELSE IF env.select.kind = "error"
        THEN Outcome([success |-> FALSE, error |-> env.select.msg], st, img, <<selCall>>)
        ELSE IF found = {}
        THEN DeleteImageNotFound(env.single, st, img, selCall)
        ELSE LET image   == CHOOSE r \in found : TRUE
                 bucket  == BucketOf(image)
                 rmCall  == RemoveCall(bucket, <<image.storage_path>>, env.remove)
                 st2     == IF env.remove.kind = "ok"
                            THEN RemoveObjects(st, bucket, <<image.storage_path>>)
                            ELSE st
                 delCall == Call("images.delete", NoKey, Null, env.delete)
                 rvCall  == Call("revalidatePath", NoKey, Null, env.revalidate)
             IN  IF env.remove.kind = "throw"
                 THEN Outcome(DeleteCaughtOutcome(env.remove.msg), st, img,
                              <<selCall, rmCall>>)
                 ELSE IF env.delete.kind = "throw"
                 THEN Outcome(DeleteCaughtOutcome(env.delete.msg), st2, img,
                              <<selCall, rmCall, delCall>>)
                 ELSE IF env.delete.kind = "error"
                 THEN Outcome([success |-> FALSE, error |-> env.delete.msg], st2, img,
                              <<selCall, rmCall, delCall>>)
                 ELSE IF env.revalidate.kind = "throw"
                 THEN Outcome(DeleteCaughtOutcome(env.revalidate.msg), st2, img \ found,
                              <<selCall, rmCall, delCall, rvCall>>)
                 ELSE Outcome([success |-> TRUE], st2, img \ found,
                              <<selCall, rmCall, delCall, rvCall>>)

\* the rows of a select without an order clause, by id
RECURSIVE ById(_)
ById(rows) ==
    IF rows = {} THEN <<>>
    ELSE LET r == CHOOSE x \in rows : \A y \in rows : x.id <= y.id
         IN  <<r>> \o ById(rows \ {r})

\* imagesByBucket[bucket].push(image.storage_path)
AddToBucket(groups, bucket, path) ==
    IF \E k \in DOMAIN groups : groups[k].bucket = bucket
    THEN [k \in DOMAIN groups |->
            IF groups[k].bucket = bucket
            THEN [groups[k] EXCEPT !.paths = Append(@, path)]
            ELSE groups[k]]
    ELSE Append(groups, [bucket |-> bucket, paths |-> <<path>>])

\* Object.entries(imagesByBucket): buckets in order of first occurrence
RECURSIVE GroupByBucket(_)
GroupByBucket(imgs) ==
    IF imgs = <<>> THEN <<>>
    ELSE LET last == imgs[Len(imgs)]
         IN  AddToBucket(GroupByBucket(SubSeq(imgs, 1, Len(imgs) - 1)),
                         BucketOf(last), last.storage_path)

\* paths.slice(i, i + n) for i = 0, n, 2n, ...
RECURSIVE Chunks(_, _)
Chunks(paths, n) ==
    IF paths = <<>> THEN <<>>
    ELSE IF Len(paths) <= n THEN <<paths>>
    ELSE <<SubSeq(paths, 1, n)>> \o Chunks(SubSeq(paths, n + 1, Len(paths)), n)

\* the removal calls of deleteAllImages, in order
RECURSIVE RemovalPlan(_)
RemovalPlan(groups) ==
    IF groups = <<>> THEN <<>>
    ELSE LET cs == Chunks(Head(groups).paths, RemoveBatchSize)
         IN  [k \in DOMAIN cs |-> [bucket |-> Head(groups).bucket, batch |-> cs[k]]]
                 \o RemovalPlan(Tail(groups))

\* the rows deleteAllImages selects
TargetRows(uid, img) == {r \in img : UserFilterOn(uid) => r.user_id = uid.value}

deleteAllImages(uid, env, st, img) ==
    LET target   == TargetRows(uid, img)
        selected == ById(target)
        selCall  == Call("images.select", NoKey,
                         IF UserFilterOn(uid) THEN uid.value ELSE Null, env.select)
        plan     == RemovalPlan(GroupByBucket(selected))
        throwsAt == {k \in DOMAIN plan : env.removes[k].kind = "throw"}
        last     == IF throwsAt = {} THEN Len(plan)
                    ELSE CHOOSE k \in throwsAt : \A j \in throwsAt : k <= j
        rmCalls  == [k \in 1..last |->
                        RemoveCall(plan[k].bucket, plan[k].batch, env.removes[k])]
        st2      == {o \in st : ~\E k \in 1..last :
                        /\ env.removes[k].kind = "ok"
                        /\ o.bucket = plan[k].bucket
                        /\ o.key \in Range(plan[k].batch)}
        delCall  == Call("images.delete", NoKey, Null, env.delete)
        rvCall   == Call("revalidatePath", NoKey, Null, env.revalidate)
    IN  IF env.select.kind = "throw"
        THEN Outcome(DeleteCaughtOutcome(env.select.msg), st, img, <<selCall>>)
        ELSE IF env.select.kind = "error"
        THEN Outcome([success |-> FALSE, error |-> env.select.msg], st, img, <<selCall>>)
        ELSE IF selected = <<>>
        THEN Outcome([success |-> TRUE, message |-> NoImagesMessage], st, img, <<selCall>>)
        ELSE IF throwsAt # {}
        THEN Outcome(DeleteCaughtOutcome(env.removes[last].msg), st2, img,
                     <<selCall>> \o rmCalls)
        ELSE IF env.delete.kind = "throw"
        THEN Outcome(DeleteCaughtOutcome(env.delete.msg), st2, img,
                     <<selCall>> \o rmCalls \o <<delCall>>)
        ELSE IF env.delete.kind = "error"
        THEN Outcome([success |-> FALSE, error |-> env.delete.msg], st2, img,
                     <<selCall>> \o rmCalls \o <<delCall>>)
        ELSE IF env.revalidate.kind = "throw"
        THEN Outcome(DeleteCaughtOutcome(env.revalidate.msg), st2, img \ target,
                     <<selCall>> \o rmCalls \o <<delCall, rvCall>>)
        ELSE Outcome([success |-> TRUE, count |-> Len(selected)], st2, img \ target,
                     <<selCall>> \o rmCalls \o <<delCall, rvCall>>)

GetUserImages ==
    /\ pc = "idle"
    /\ \E uid \in NumericUserIds, limit \in Limits, resp \in StoreResponses :
        LET r == getUserImages(uid, limit, resp, images)
        IN  /\ args' = [userId |-> uid, limit |-> limit]
            /\ UNCHANGED uploader
            /\ ret' = r.result
            /\ calls' = r.calls
    /\ entry' = "getUserImages"
    /\ pc' = "done"
    /\ UNCHANGED <<files, userId, folderPath, i, results, successfulUploads, rateLimitHit,
                   bucketExists, storage, images, now>>

GetUserImagesOfUploadImage ==
    /\ pc = "idle"
    /\ \E uid \in NumericUserIds, limit \in Limits, resp \in StoreResponses :
        LET r == getUserImagesOfUploadImage(uid, limit, resp, images)
        IN  /\ args' = [userId |-> uid, limit |-> limit]
            /\ UNCHANGED uploader
            /\ ret' = r.result
            /\ calls' = r.calls
    /\ entry' = "uploadImage.getUserImages"
    /\ pc' = "done"
    /\ UNCHANGED <<files, userId, folderPath, i, results, successfulUploads, rateLimitHit,
                   bucketExists, storage, images, now>>

DeleteImageOf(ids, resps) ==
    /\ pc = "idle"
    /\ \E imageId \in ids,
          env \in [select : resps, single : {"error", "null"},
                   remove : resps, delete : resps,
                   revalidate : RevalidateResponses] :
        LET r == deleteImage(imageId, env, storage, images)
        IN  /\ args' = [imageId |-> imageId]
            /\ UNCHANGED uploader
            /\ ret' = r.result
            /\ storage' = r.storage
            /\ images' = r.images
            /\ calls' = r.calls
    /\ entry' = "deleteImage"
    /\ pc' = "done"
    /\ UNCHANGED <<files, userId, folderPath, i, results, successfulUploads, rateLimitHit,
                   bucketExists, now>>

DeleteImage == DeleteImageOf(ImageIds, StoreResponses)

DeleteAllImagesOf(uids, resps) ==
    /\ pc = "idle"
    /\ \E uid \in uids, sel \in resps, del \in resps,
          rv \in RevalidateResponses :
        \E rs \in [1..Len(RemovalPlan(GroupByBucket(ById(TargetRows(uid, images)))))
                     -> resps] :
            LET r == deleteAllImages(uid, [select |-> sel, removes |-> rs, delete |-> del,
                                           revalidate |-> rv], storage, images)
            IN  /\ args' = [userId |-> uid]
                /\ UNCHANGED uploader
                /\ ret' = r.result
                /\ storage' = r.storage
                /\ images' = r.images
                /\ calls' = r.calls
    /\ entry' = "deleteAllImages"
    /\ pc' = "done"
    /\ UNCHANGED <<files, userId, folderPath, i, results, successfulUploads, rateLimitHit,
                   bucketExists, now>>

DeleteAllImages == DeleteAllImagesOf(NumericUserIds, StoreResponses)

InitStore ==
    /\ pc = "idle"
    /\ entry = "none"
    /\ files = <<>>
    /\ userId = NoUserId
    /\ folderPath = ""
    /\ i = 0
    /\ results = <<>>
    /\ successfulUploads = 0
    /\ rateLimitHit = FALSE
    /\ ret = NoRet
    /\ bucketExists = TRUE
    /\ images \in Tables
    /\ storage \in SUBSET {StoredObject(r) : r \in images}
    /\ calls = <<>>
    /\ now = 1000
    /\ args = NoArgs
    /\ uploader = NoUploader

NextStore ==
    \/ GetUserImages
    \/ GetUserImagesOfUploadImage
    \/ DeleteImage
    \/ DeleteAllImages

SpecStore == InitStore /\ [][NextStore]_vars

\* the records a request for user uid is about: those of the user when a user id
\* is supplied, all records otherwise
Matching(uid, img) == {r \in img : uid.present => r.user_id = uid.value}

Answered(op, kinds) == \E n \in DOMAIN calls : calls[n].op = op /\ calls[n].resp.kind \in kinds

Issued(op) == Answered(op, {"ok", "error", "throw"})

\* C14: when deleteImage finds the record and the removal of its storage object
\* fails, the failure is swallowed: the row deletion is still issued, and when
\* that deletion succeeds the row is gone and the result is success=true.
C14_RemovalFailureSwallowed ==
    [][(/\ pc = "idle"
        /\ entry' = "deleteImage"
        /\ \E r \in images : r.id = args'.imageId
        /\ Answered("storage.remove", {"error", "throw"})')
       => /\ Issued("images.delete")'
          /\ (Answered("images.delete", {"ok"})' /\ ~Answered("revalidatePath", {"throw"})')
                => /\ ret'.success
                   /\ ~\E r \in images' : r.id = args'.imageId]_vars

\* C15: deleteImage for an id that no record has returns success=false, issues
\* neither a storage removal nor a row deletion, and leaves the sink and the
\* table as they were.
C15_NotFoundNoSideEffects ==
    [][(/\ pc = "idle"
        /\ entry' = "deleteImage"
        /\ ~\E r \in images : r.id = args'.imageId)
       => /\ ~ret'.success
          /\ ~Issued("storage.remove")'
          /\ ~Issued("images.delete")'
          /\ storage' = storage
          /\ images' = images]_vars

C15_Witness ==
    /\ entry = "deleteImage"
    /\ pc = "done"
    /\ args.imageId = 9
    /\ Answered("images.select", {"ok"})
    /\ ~ret.success
    /\ images = StoredRows
    /\ storage = {StoredObject(r) : r \in StoredRows}

\* C16: when deleteAllImages selects M >= 1 matching records and a storage
\* removal fails, all M rows are still removed and the result is success=true
\* with count = M, provided the row deletion does not fail.
C16_BulkDeleteCount ==
    [][(/\ pc = "idle"
        /\ entry' = "deleteAllImages"
        /\ Cardinality(Matching(args'.userId, images)) >= 1
        /\ Answered("images.select", {"ok"})'
        /\ Answered("storage.remove", {"error", "throw"})'
        /\ ~Answered("images.delete", {"error", "throw"})'
        /\ ~Answered("revalidatePath", {"throw"})')
       => /\ ret'.success
          /\ Has(ret', "count")
          /\ ret'.count = Cardinality(Matching(args'.userId, images))
          /\ images' = images \ Matching(args'.userId, images)]_vars

Listed == entry \in {"getUserImages", "uploadImage.getUserImages"} /\ pc = "done"

\* list holds the newest rows of the set rows, newest first, at most limit of them
NewestOf(list, rows, limit) ==
    /\ Len(list) <= limit
    /\ Len(list) = (IF Cardinality(rows) < limit THEN Cardinality(rows) ELSE limit)
    /\ Range(list) \subseteq rows
    /\ \A k \in 1..(Len(list) - 1) : list[k].created_at >= list[k + 1].created_at
    /\ \A r \in rows \ Range(list) : \A k \in DOMAIN list : list[k].created_at >= r.created_at

\* C17: getUserImages returns at most limit records, newest first, those of the
\* user when a user id is supplied and those of all users when none is; without
\* a match the list is empty and there is no error field; a failed query gives
\* an empty list together with the error message.
C17_Listing ==
    Listed =>
        IF Answered("images.select", {"error", "throw"})
        THEN /\ ret.images = <<>>
             /\ Has(ret, "error")
             /\ ret.error = MsgOther
        ELSE /\ NewestOf(ret.images, Matching(args.userId, images), LimitOf(args.limit))
             /\ ~Has(ret, "error")

(***************************************************************************)
(* All exported server actions, on an empty store and on a store that      *)
(* already holds assets                                                    *)
(***************************************************************************)
InitServer ==
    \/ Init
    \/ /\ InitStore
       /\ images = StoredRows
       /\ storage = {StoredObject(r) : r \in StoredRows}

NextServer ==
    \/ UploadMultipleImagesStart
    \/ UploadMultipleImagesStep
    \/ UploadMultipleImagesReturn
    \/ UploadImageSupabase
    \/ UploadImage
    \/ GetUserImages
    \/ GetUserImagesOfUploadImage
    \/ DeleteImage
    \/ DeleteAllImages

SpecServer == InitServer /\ [][NextServer]_vars

\* what a caller receives: a result object, not an exception
IsResult(r) == ~Has(r, "thrown") /\ (Has(r, "success") \/ Has(r, "images"))

\* the next iteration of the batch loop can be taken: the file is skipped, or the
\* services have an answer for its upload
LoopCanStep ==
    \/ rateLimitHit
    \/ \E env \in Envs(userId, BatchUploads, BatchLookups, BatchInserts) :
            SinkAccepts(env, bucketExists)

\* C18: every exported server action ends by returning a result object, whatever
\* the external calls answer (success, returned error, thrown exception): a
\* finished request holds a result, no exception reaches the caller, and a
\* request that has not finished can always take its next step.
C18_AlwaysReturns ==
    /\ pc \in {"idle", "loop", "done"}
    /\ pc = "done" => IsResult(ret)
    /\ pc = "loop" =>
        /\ i <= Len(files)
        /\ i = Len(files) => ENABLED UploadMultipleImagesReturn
        /\ i < Len(files) => LoopCanStep
    /\ pc = "idle" => ENABLED NextServer

C18_Witness ==
    /\ entry = "deleteAllImages"
    /\ pc = "done"
    /\ Answered("storage.remove", {"throw"})
    /\ IsResult(ret)
    /\ ~ret.success
    /\ ret.error = MsgOther

\* C22: within one batch the files are handled one after the other in input
\* order: an iteration starts with the outcomes of all earlier files recorded,
\* appends the outcome of exactly the next file, issues calls for that file only,
\* and begins 500 ms after the previous iteration, except the first, which
\* begins without delay.
C22_SequentialPacing ==
    [][(InBatch /\ pc = "loop" /\ i' # i)
       => /\ i' = i + 1
          /\ Len(results) = i
          /\ Len(results') = i + 1
          /\ results'[i + 1].fileName = files[i + 1].name
          /\ SubSeq(results', 1, i) = results
          /\ now' = (IF i = 0 THEN now ELSE now + 500)
          /\ SubSeq(calls', 1, Len(calls)) = calls
          /\ \A n \in (Len(calls) + 1)..Len(calls') :
                /\ calls'[n].key.base = sanitizeFilename(files[i + 1].name)
                /\ calls'[n].key.ts = now']_vars

C22_Witness ==
    /\ BatchReturned
    /\ Len(files) = 3
    /\ Len(UploadCalls) = 3
    /\ UploadCalls[1].key.ts = 1000
    /\ UploadCalls[2].key.ts = 1500
    /\ UploadCalls[3].key.ts = 2000

(***************************************************************************)
(* The upload entry points under every kind of storage failure message     *)
(***************************************************************************)
MsgEntity == <<"Request", "Entity", "Too", "Large">>

MsgExplicitSize == <<"File", "too", "large", "for", "bucket">>

MsgRatePhrase == <<"rate", "limit", "reached">>

MsgQuota == <<"Quota", "exceeded">>

ClassifyMessages == Messages \cup {MsgEntity, MsgExplicitSize, MsgRatePhrase, MsgQuota}

ClassifyResponses ==
    {Ok} \cup {Err(m) : m \in ClassifyMessages} \cup {Thrown(m) : m \in ClassifyMessages}

ClassifySingle == UploadImageSupabaseOf({FileA}, {NoUserId}, {""}, ClassifyResponses, {Ok})

ClassifyBatch == UploadMultipleImagesOf({<<FileA, FileB>>})

ClassifyStep == UploadMultipleImagesStepOf(ClassifyResponses)

NextClassify ==
    \/ ClassifySingle
    \/ ClassifyBatch
    \/ ClassifyStep
    \/ UploadMultipleImagesReturn

SpecClassify == Init /\ [][NextClassify]_vars

\* the markers of a payload that is too large, of a rate limit, and the symptom
\* of a malformed response
HasTooLargeMarker(msg) ==
    \/ Includes(msg, <<"413">>)
    \/ Includes(msg, <<"Request", "Entity", "Too", "Large">>)
    \/ Includes(msg, <<"Payload", "Too", "Large">>)

HasRateMarker(msg) ==
    \/ Includes(msg, <<"429">>)
    \/ Includes(msg, <<"Too", "Many", "Requests">>)
    \/ Includes(msg, <<"rate", "limit">>)

HasJsonSymptom(msg) == Includes(msg, <<"not", "valid", "JSON">>)

NoTrigger(msg) ==
    /\ ~HasTooLargeMarker(msg)
    /\ ~HasRateMarker(msg)
    /\ ~HasJsonSymptom(msg)
    /\ ~Includes(msg, <<"File", "too", "large">>)

\* the storage uploads that failed, each with the outcome reported for its file
FailedUploads ==
    IF entry = "uploadImageSupabase" /\ pc = "done"
    THEN {[resp |-> UploadCalls[n].resp, outcome |-> ret] :
            n \in {k \in DOMAIN UploadCalls : UploadCalls[k].resp.kind # "ok"}}
    ELSE IF InBatch /\ pc \in {"loop", "done"}
    THEN {[resp |-> UploadCalls[n].resp, outcome |-> results[n]] :
            n \in {k \in DOMAIN UploadCalls : UploadCalls[k].resp.kind # "ok"}}
    ELSE {}

\* C24: a single-file upload that fails with the malformed-response symptom is
\* classified as rate-limited: its outcome carries the rate-limit flag, and in
\* a batch the flag rateLimitHit is raised by it.
C24_JsonSymptomIsRateLimit ==
    \A f \in FailedUploads :
        HasJsonSymptom(f.resp.msg) =>
            /\ ~f.outcome.success
            /\ Truthy(f.outcome, "isRateLimit")
            /\ InBatch => rateLimitHit

RemoveCalls == SelectSeq(calls, LAMBDA c : c.op = "storage.remove")

PositionsOf(op) == {n \in DOMAIN calls : calls[n].op = op}

\* C23: deleteAllImages groups the selected storage keys by bucket (default
\* bucket for rows without one); every removal call holds keys of one bucket
\* and at most 1000 of them; every selected key is in exactly one removal
\* call, also when an earlier removal call failed; the metadata delete is
\* issued once and after all removal calls.
C23_BulkRemovalBatches ==
    [][(/\ pc = "idle"
        /\ entry' = "deleteAllImages"
        /\ Answered("images.select", {"ok"})'
        /\ TargetRows(args'.userId, images) # {})
       => LET selected == TargetRows(args'.userId, images)
              rm       == RemoveCalls'
          IN  /\ \A n \in DOMAIN rm :
                    /\ Len(rm[n].key) <= 1000
                    /\ \A k \in DOMAIN rm[n].key :
                          \E r \in selected : /\ r.storage_path = rm[n].key[k]
                                              /\ BucketOf(r) = rm[n].bucket
              /\ \A r \in selected :
                    Cardinality({<<n, k>> \in (DOMAIN rm) \X (1..Cardinality(selected)) :
                                    /\ k \in DOMAIN rm[n].key
                                    /\ rm[n].bucket = BucketOf(r)
                                    /\ rm[n].key[k] = r.storage_path}) = 1
              /\ Cardinality(PositionsOf("images.delete")') = 1
              /\ \A d \in PositionsOf("images.delete")', n \in PositionsOf("storage.remove")' :
                    n < d]_vars

\* C27: for every supplied numeric userId, 0 included, deleteAllImages deletes
\* only rows of that user and removes only their objects, and getUserImages
\* returns only rows of that user.
C27_UserFilterHonoured ==
    [][(/\ pc = "idle"
        /\ entry' \in {"deleteAllImages", "getUserImages"}
        /\ args'.userId.present)
       => LET own == {r \in images : r.user_id = args'.userId.value}
          IN  /\ images \ images' \subseteq own
              /\ storage \ storage' \subseteq {StoredObject(r) : r \in own}
              /\ entry' = "getUserImages" => Range(ret'.images) \subseteq own]_vars

(***************************************************************************)
(* The catalogue over many requests: uploads and deletions one after the   *)
(* other on the same storage sink and images table, all of them within the *)
(* same millisecond of Date.now()                                          *)
(***************************************************************************)
MaxAssets == 2

\* values of Math.random().toString(36).substring(2, 8)
CatalogTokens == {"k3x9ab", "q7w2zz"}

\* two files of the same name with different content
FileA2 == [name |-> Str1, size |-> 1024, type |-> "image/png"]

CatalogFiles == {FileA, FileA2}

CatalogResponses == {Ok, Err(MsgOther)}

CatalogUpload ==
    /\ NextId(images) <= MaxAssets
    /\ UploadImageSupabaseWith(CatalogTokens, CatalogFiles, {NoUserId}, {""},
                               CatalogResponses, CatalogResponses)

CatalogDeleteImage == DeleteImageOf(1..MaxAssets, CatalogResponses)

CatalogDeleteAllImages == DeleteAllImagesOf({Absent}, CatalogResponses)

\* the response is delivered; the next request starts from fresh locals
ServerLocalsReset ==
    /\ pc = "done"
    /\ pc' = "idle"
    /\ entry' = "none"
    /\ files' = <<>>
    /\ userId' = NoUserId
    /\ folderPath' = ""
    /\ i' = 0
    /\ results' = <<>>
    /\ successfulUploads' = 0
    /\ rateLimitHit' = FALSE
    /\ ret' = NoRet
    /\ calls' = <<>>
    /\ args' = NoArgs
    /\ UNCHANGED <<bucketExists, storage, images, now>>

RequestEnds ==
    /\ ServerLocalsReset
    /\ UNCHANGED uploader

NextCatalog ==
    \/ CatalogUpload
    \/ CatalogDeleteImage
    \/ CatalogDeleteAllImages
    \/ RequestEnds

SpecCatalog == Init /\ [][NextCatalog]_vars

\* C21: after any sequence of uploads no two records of the images table have
\* the same bucket_name and storage_path, and no upload writes to a key that
\* already holds the object of an earlier upload.
C21_StoragePathUnique ==
    [][/\ \A r1 \in images', r2 \in images' :
            (r1.bucket_name = r2.bucket_name /\ r1.storage_path = r2.storage_path)
                => r1 = r2
       /\ \A n \in DOMAIN calls' :
            (/\ pc = "idle"
             /\ calls'[n].op = "storage.upload"
             /\ calls'[n].resp.kind = "ok")
                => ~\E o \in storage : o.bucket = DEFAULT_BUCKET /\ o.key = calls'[n].key]_vars

\* C28: every record of the images table refers to an object that is present
\* in the storage sink under the record's storage_path and holds the bytes
\* uploaded for that record.
C28_RecordsHaveObjects ==
    \A r \in images :
        \E o \in storage :
            /\ o.bucket = BucketOf(r)
            /\ o.key = r.storage_path
            /\ o.size = r.file_size
            /\ o.contentType = r.file_type

(***************************************************************************)
(* MultiFileUploader (s3-client.ts): the component in the browser and the  *)
(* server action it calls                                                  *)
(***************************************************************************)
maxFiles == 2

maxSizeMB == 50

allowedFileTypes ==
    {"image/jpeg", "image/png", "image/webp", "image/gif",
     "video/mp4", "video/webm", "video/quicktime", "video/x-msvideo",
     "audio/mpeg", "audio/wav", "audio/ogg", "audio/mp4"}

\* a file of the same name as FileA that fails the type validation
FileBad == [name |-> Str1, size |-> 2048, type |-> "text/plain"]

ClientFiles == {FileA, FileBad}

\* event.target.files: what the user picks in one go
Selections == UNION {[1..n -> ClientFiles] : n \in 1..maxFiles}

ClientUploads == {Ok, Err(MsgRate)}

RejectMessages == {MsgOther, MsgJson}

MaxFilesMessage == <<"You", "can", "only", "upload", "a", "maximum", "of", "files", "at", "once">>

InvalidTypeMessage == <<"Invalid", "file", "type">>

ClientTooLargeMessage == <<"File", "too", "large", "Max", "size">>

NoValidFilesMessage == <<"No", "valid", "files", "to", "upload">>

UploadFailedMessage == <<"Upload", "failed">>

ClientRateLimitMessage == <<"Rate", "limit", "exceeded", ".", "Please", "try", "again", "later">>

PartialRateLimitMessage ==
    <<"Rate", "limit", "exceeded", ".", "Some", "files", "were", "not", "uploaded">>

ClientErrorMessage == <<"An", "error", "occurred", "during", "upload">>

serverVars ==
    <<pc, entry, files, userId, folderPath, i, results, successfulUploads, rateLimitHit,
      ret, bucketExists, storage, images, calls, now, args>>

\* id: `${Date.now()}-${Math.random()...}`: an id no entry of the list has
FreshId(fs) == CHOOSE n \in 1..(Len(fs) + 1) : \A k \in DOMAIN fs : fs[k].id # n

isValidType(file) == file.type \in allowedFileTypes

isValidSize(file) == file.size <= maxSizeMB * 1024 * 1024

\* the entry handleFileChange makes of a selected file
NewEntry(file, id) ==
    [file |-> file, id |-> id,
     status |-> IF isValidType(file) /\ isValidSize(file) THEN "pending" ELSE "error",
     progress |-> 0,
     error |-> IF ~isValidType(file) THEN InvalidTypeMessage
               ELSE IF ~isValidSize(file) THEN ClientTooLargeMessage
               ELSE <<>>]

\* setFiles((prev) => [...prev, ...newFiles])
RECURSIVE AppendEntries(_, _)
AppendEntries(fs, sel) ==
    IF sel = <<>> THEN fs
    ELSE AppendEntries(Append(fs, NewEntry(Head(sel), FreshId(fs))), Tail(sel))

\* faulty variant: only the selection is compared with the ceiling
ExceedsMaxFiles_SelectionOnly(n, k) == k > maxFiles

\* files.length + selectedFiles.length > maxFiles
ExceedsMaxFiles(n, k) == n + k > maxFiles

handleFileChange(u, sel) ==
    IF ExceedsMaxFiles(Len(u.files), Len(sel))
    THEN [u EXCEPT !.error = MaxFilesMessage]
    ELSE [u EXCEPT !.error = <<>>, !.rateLimitHit = FALSE,
                   !.files = AppendEntries(u.files, sel)]

removeFile(u, id) ==
    [u EXCEPT !.files = SelectSeq(u.files, LAMBDA f : f.id # id)]

resetUpload(u) ==
    [u EXCEPT !.files = <<>>, !.error = <<>>, !.rateLimitHit = FALSE]

\* files.filter((f) => f.status === "pending")
PendingEntries(fs) == SelectSeq(fs, LAMBDA f : f.status = "pending")

\* uploadFiles up to the await
uploadFiles(u) ==
    IF PendingEntries(u.files) = <<>>
    THEN [u EXCEPT !.error = NoValidFilesMessage]
    ELSE [u EXCEPT !.uploading = TRUE, !.error = <<>>, !.rateLimitHit = FALSE,
                   !.files = [k \in DOMAIN u.files |->
                                IF u.files[k].status = "pending"
                                THEN [u.files[k] EXCEPT !.status = "uploading",
                                                        !.progress = 0]
                                ELSE u.files[k]],
                   !.validFiles = PendingEntries(u.files)]

\* formData.append("files", f.file) for every valid entry
FormFiles(entries) == [k \in DOMAIN entries |-> entries[k].file]

\* resultsByFilename.get(name): the last outcome with that file name
ResultsByFilename(res, name) == SelectSeq(res, LAMBDA r : r.fileName = name)

\* the entry's result property, read by the display only, is not kept
WithResult(f, fileResult) ==
    IF fileResult.success
    THEN [f EXCEPT !.status = "success", !.progress = 100]
    ELSE [f EXCEPT !.status = "error", !.progress = 0, !.error = fileResult.error]

\* the update of the file statuses from result.results
ApplyResults(fs, res) ==
    [k \in DOMAIN fs |->
        LET rs == ResultsByFilename(res, fs[k].file.name)
        IN  IF rs = <<>> THEN fs[k] ELSE WithResult(fs[k], rs[Len(rs)])]

ClientCaughtIsRateLimit(msg) ==
    /\ msg # <<>>
    /\ \/ Includes(msg, <<"Too", "Many", "Requests">>)
       \/ Includes(msg, <<"429">>)
       \/ Includes(msg, <<"rate", "limit">>)
       \/ Includes(msg, <<"not", "valid", "JSON">>)

\* faulty variant: the catch block leaves the entries as they are
MarkUploadingAsError_Skip(fs) == fs

\* the catch block: mark all uploading files as error
MarkUploadingAsError(fs) ==
    [k \in DOMAIN fs |->
        IF fs[k].status = "uploading"
        THEN [fs[k] EXCEPT !.status = "error", !.error = UploadFailedMessage]
        ELSE fs[k]]

\* catch and finally of uploadFiles
ClientCaught(u, msg) ==
    [u EXCEPT !.error = IF ClientCaughtIsRateLimit(msg) THEN ClientRateLimitMessage
                        ELSE IF msg # <<>> THEN msg ELSE ClientErrorMessage,
              !.rateLimitHit = IF ClientCaughtIsRateLimit(msg) THEN TRUE ELSE @,
              !.files = MarkUploadingAsError(u.files),
              !.uploading = FALSE,
              !.validFiles = <<>>]

\* uploadFiles after the await, given the value the server action returned
AfterAwait(u, result) ==
    IF ~result.success
    THEN ClientCaught(u, IF Has(result, "error") /\ result.error # <<>>
                         THEN result.error ELSE UploadFailedMessage)
    ELSE [u EXCEPT !.rateLimitHit = IF result.rateLimitHit THEN TRUE ELSE @,
                   !.error = IF result.rateLimitHit THEN PartialRateLimitMessage ELSE @,
                   !.files = ApplyResults(u.files, result.results),
                   !.uploading = FALSE,
                   !.validFiles = <<>>]

\* the input, the remove buttons and the reset button are disabled while uploading
HandleFileChange ==
    /\ pc = "idle"
    /\ ~uploader.uploading
    /\ \E sel \in Selections : uploader' = handleFileChange(uploader, sel)
    /\ UNCHANGED serverVars

RemoveFile ==
    /\ pc = "idle"
    /\ ~uploader.uploading
    /\ \E k \in DOMAIN uploader.files : uploader' = removeFile(uploader, uploader.files[k].id)
    /\ UNCHANGED serverVars

ResetUpload ==
    /\ pc = "idle"
    /\ ~uploader.uploading
    /\ uploader.files # <<>>
    /\ uploader' = resetUpload(uploader)
    /\ UNCHANGED serverVars

\* the upload button is disabled while uploading or without pending entries;
\* runs are started while nothing is stored yet and the clock is early
UploadFilesStart ==
    /\ pc = "idle"
    /\ ~uploader.uploading
    /\ PendingEntries(uploader.files) # <<>>
    /\ storage = {}
    /\ images = {}
    /\ now < 1000 + maxFiles * DelayMs
    /\ uploader' = uploadFiles(uploader)
    /\ UNCHANGED serverVars

\* await uploadMultipleImages(formData): the server handles the request
UploadFilesCall ==
    /\ uploader.uploading
    /\ UploadMultipleImagesOf({FormFiles(uploader.validFiles)})

UploadFilesServerStep ==
    /\ uploader.uploading
    /\ UploadMultipleImagesStepOf(ClientUploads)

UploadFilesServerReturn ==
    /\ uploader.uploading
    /\ UploadMultipleImagesReturn

\* the awaited call returns
UploadFilesSettle ==
    /\ uploader.uploading
    /\ ServerLocalsReset
    /\ uploader' = AfterAwait(uploader, ret)

\* the awaited call rejects without reaching the server action
UploadFilesReject ==
    /\ uploader.uploading
    /\ pc = "idle"
    /\ \E msg \in RejectMessages : uploader' = ClientCaught(uploader, msg)
    /\ UNCHANGED serverVars

NextClient ==
    \/ HandleFileChange
    \/ RemoveFile
    \/ ResetUpload
    \/ UploadFilesStart
    \/ UploadFilesCall
    \/ UploadFilesServerStep
    \/ UploadFilesServerReturn
    \/ UploadFilesSettle
    \/ UploadFilesReject

SpecClient == Init /\ [][NextClient]_vars

\* the steps of UploadFilesCall and of UploadFilesServerStep, told by the
\* position of the server action
CallDelivered ==
    /\ uploader.uploading
    /\ pc = "idle"
    /\ pc' \in {"loop", "done"}

LoopAdvances ==
    /\ uploader.uploading
    /\ pc = "loop"
    /\ i < Len(files)
    /\ i' = i + 1

\* the awaited server action settles: the call is delivered unless it is
\* rejected before, the loop of the server action goes on, and its return
\* reaches the component
SpecClientFair ==
    /\ Init
    /\ [][NextClient]_vars
    /\ WF_pc(CallDelivered)
    /\ WF_i(LoopAdvances)
    /\ WF_vars(UploadFilesServerReturn)
    /\ WF_vars(UploadFilesSettle)

NoneUploading == \A k \in DOMAIN uploader.files : uploader.files[k].status # "uploading"

\* C26: the list of the component never holds more than maxFiles entries; a
\* selection that would exceed the ceiling is rejected as a whole and leaves
\* the list unchanged; a selection that is taken is appended to the list; the
\* batch passed to uploadMultipleImages never holds more than maxFiles files.
C26_MaxFilesCeiling ==
    [][/\ Len(uploader'.files) <= maxFiles
       /\ InBatch' => Len(files') <= maxFiles
       /\ (uploader'.error = MaxFilesMessage /\ uploader.error # MaxFilesMessage)
            => uploader'.files = uploader.files
       /\ Len(uploader'.files) > Len(uploader.files)
            => SubSeq(uploader'.files, 1, Len(uploader.files)) = uploader.files]_vars

C26_Witness ==
    /\ uploader.error = MaxFilesMessage
    /\ Len(uploader.files) = maxFiles
    /\ ~uploader.uploading

\* the number of sent entries among the first k entries of the list
SentRank(fs, k) == Cardinality({j \in 1..k : fs[j].status = "uploading"})

\* C29: when uploadFiles receives a batch result, every sent entry ends as
\* "success" exactly when its own outcome has success = true and as "error"
\* otherwise, and every entry that was not sent keeps its status.
C29_StatusFollowsOwnOutcome ==
    [][(/\ uploader.uploading
        /\ ~uploader'.uploading
        /\ pc = "done"
        /\ ret.success)
       => \A k \in DOMAIN uploader.files :
            IF uploader.files[k].status = "uploading"
            THEN uploader'.files[k].status =
                    (IF ret.results[SentRank(uploader.files, k)].success
                     THEN "success" ELSE "error")
            ELSE uploader'.files[k].status = uploader.files[k].status]_vars

\* C30: every run of uploadFiles that has set uploading ends with uploading =
\* false and no entry in status "uploading", whatever the server action does;
\* the submitted batch holds the files of the pending entries only, none of
\* which failed the validation.
C30_UploadRunEnds ==
    /\ uploader.uploading ~> (~uploader.uploading /\ NoneUploading)
    /\ [](\A k \in DOMAIN uploader.validFiles :
            /\ isValidType(uploader.validFiles[k].file)
            /\ isValidSize(uploader.validFiles[k].file)
            /\ uploader.validFiles[k].status = "pending")
    /\ [](InBatch => files = FormFiles(uploader.validFiles))

C30_Witness ==
    /\ ~uploader.uploading
    /\ NoneUploading
    /\ \E k \in DOMAIN uploader.files :
          /\ uploader.files[k].status = "error"
          /\ uploader.files[k].error = UploadFailedMessage
    /\ \E k \in DOMAIN uploader.files :
          /\ uploader.files[k].status = "error"
          /\ uploader.files[k].error = InvalidTypeMessage

====
